---- MODULE Spec2Model ----
(***************************************************************************)
(* Model of the oxcc brake module (Kia Soul EV / Niro) and of the MCP4922  *)
(* DAC driver it writes through.                                           *)
(*                                                                         *)
(*   src/src/brake/kia_soul_ev_niro/brake_module.rs   BrakeModule          *)
(*   src/src/dac_mcp4922.rs                           Mcp4922              *)
(*                                                                         *)
(* Handlers are operators from a module value (the fields of BrakeModule   *)
(* plus the effects of the running handler: DAC transfers, fault reports,  *)
(* disable calls) to a module value, composed in the order of the code.    *)
(* One action per entry point commits the result.                          *)
(*                                                                         *)
(* FaultCondition, DualSignal, the DTC bitfield helpers and the vehicle    *)
(* constants are crates of the repository that are not among the sources;  *)
(* they are modelled from the specification's description of them.         *)
(***************************************************************************)
EXTENDS Integers, Sequences, FiniteSets, TLC

VARIABLES
    initialized,              \* init_devices has run
    control_state,            \* BrakeControlState: enabled, operator_override, dtcs
    brake_pins,               \* BrakePins: spoof_enable, brake_light_enable
    brake_pedal_position,     \* DualSignal: last sampled high, low
    grounded_fault_state,     \* FaultCondition of the grounded-sensor check
    operator_override_state,  \* FaultCondition of the operator-override check
    adc,                      \* the two pedal sensor inputs as the ADC sees them now
    now,                      \* the board's monotonic time
    override_episode,         \* override-path runs since the override latch last read false
    brake_dac,                \* Mcp4922: chip-select level and the call in progress
    last                      \* the last operation and what it did

vars == <<initialized, control_state, brake_pins, brake_pedal_position,
          grounded_fault_state, operator_override_state, adc, now,
          override_episode, brake_dac, last>>

----------------------------------------------------------------------------
(* Bounds of the model *)

MaxTime == 3

MaxEpisodeCount == 2

----------------------------------------------------------------------------
(* Vehicle configuration (crate `vehicle`), protocol constants *)

BRAKE_SPOOF_LOW_SIGNAL_RANGE_MIN == 273

BRAKE_SPOOF_LOW_SIGNAL_RANGE_MAX == 917

BRAKE_SPOOF_HIGH_SIGNAL_RANGE_MIN == 572

BRAKE_SPOOF_HIGH_SIGNAL_RANGE_MAX == 1876

BRAKE_LIGHT_SPOOF_LOW_THRESHOLD == 300

BRAKE_LIGHT_SPOOF_HIGH_THRESHOLD == 600

BRAKE_PEDAL_OVERRIDE_THRESHOLD == 130

\* the hysteresis duration, in ticks of the model's clock
FAULT_HYSTERESIS == 2

\* pedal commands are in thousandths of full travel
MINIMUM_BRAKE_COMMAND == 0

MAXIMUM_BRAKE_COMMAND == 1000

\* spoof voltages in millivolts
BRAKE_SPOOF_LOW_SIGNAL_VOLTAGE_MIN == 333

BRAKE_SPOOF_LOW_SIGNAL_VOLTAGE_MAX == 1120

BRAKE_SPOOF_HIGH_SIGNAL_VOLTAGE_MIN == 698

BRAKE_SPOOF_HIGH_SIGNAL_VOLTAGE_MAX == 2290

\* DAC steps per 10 volts (819.2 steps per volt)
STEPS_PER_10_VOLT == 8192

\* bit positions in the DTC bitfield
OSCC_BRAKE_DTC_INVALID_SENSOR_VAL == 0

OSCC_BRAKE_DTC_OPERATOR_OVERRIDE == 1

----------------------------------------------------------------------------
(* Inputs *)

\* sensor pairs <<high, low>>: grounded, released, pressed, one wire at zero
AdcSamples == { <<0, 0>>, <<50, 60>>, <<150, 160>>, <<0, 300>> }

\* u16 arguments <<high, low>> of update_brake: below both ranges, at and
\* just above each brake-light threshold, inside both ranges, above both
CommandPairs == { <<0, 0>>, <<600, 300>>, <<601, 300>>, <<600, 301>>,
                  <<1000, 500>>, <<65535, 65535>> }

\* pedal commands of a brake-command frame, below, inside and above the range
PedalCommands == { 0 - 500, 0, 500, 1000, 1500 }

\* what the serial bus does to the two transfers of one output_ab call
SpiOutcomes == { "ok", "failA", "failB" }

NoTime == 0 - 1

----------------------------------------------------------------------------
(* num::clamp *)

clamp(v, lo, hi) == IF v < lo THEN lo ELSE IF v > hi THEN hi ELSE v

(* DtcBitfield::set on a u8 *)
DtcSet(dtcs, bit) ==
    IF (dtcs \div (2 ^ bit)) % 2 = 1 THEN dtcs ELSE (dtcs + 2 ^ bit) % 256

(* FaultCondition::new *)
NewFaultCondition == [start |-> NoTime, confirmed |-> FALSE]

(* FaultCondition::condition_exceeded_duration: the latch after one
   evaluation of the raw condition at time t *)
condition_exceeded_duration(fc, condition, duration, t) ==
    IF ~condition
    THEN [start |-> NoTime, confirmed |-> FALSE]
    ELSE LET s == IF fc.start = NoTime THEN t ELSE fc.start
         IN  [start |-> s, confirmed |-> (t - s >= duration)]

(* the raw grounded condition of FaultCondition::check_voltage_grounded *)
voltage_grounded(signal) == signal.high = 0 /\ signal.low = 0

(* FaultCondition::check_voltage_grounded *)
check_voltage_grounded(fc, signal, duration, t) ==
    condition_exceeded_duration(fc, voltage_grounded(signal), duration, t)

(* DualSignal::average *)
average(signal) == (signal.high + signal.low) \div 2

----------------------------------------------------------------------------
(* Mcp4922::output_ab: the transfers of one pair write, channel A first;
   a failed A transfer returns before B is attempted *)
output_ab(a, b, spi) ==
    IF spi = "failA"
    THEN << [ch |-> "A", val |-> a, ok |-> FALSE] >>
    ELSE << [ch |-> "A", val |-> a, ok |-> TRUE],
            [ch |-> "B", val |-> b, ok |-> (spi # "failB")] >>

----------------------------------------------------------------------------
(* The MCP4922 driver, one statement at a time *)

\* U4095: the upper bound of DacOutput
DAC_MAX == 4095

PinLevels == {"low", "high"}

Channels == {"A", "B"}

\* the output_ab argument pairs tried
DacPairs == { <<0, 0>>, <<1234, 567>>, <<4095, 4095>> }

Bit(x, i) == (x \div 2^i) % 2

\* | on u8
BitOr(x, y) ==
    LET b(i) == IF Bit(x, i) = 1 \/ Bit(y, i) = 1 THEN 2^i ELSE 0
    IN  b(0) + b(1) + b(2) + b(3) + b(4) + b(5) + b(6) + b(7)

\* & against a mask of the low n bits
LowBits(x, n) == x % 2^n

\* << on u8
ShiftLeftU8(x, n) == (x * 2^n) % 256

(* From<Channel> for u8 *)
u8_from_channel(c) == IF c = "A" THEN 0 ELSE 1

(* the word with the channel bit one place lower *)
buffer_ChannelBit6(data, channel) ==
    << BitOr(BitOr(LowBits(data \div 2^8, 4) % 256, ShiftLeftU8(1, 4)),
             ShiftLeftU8(u8_from_channel(channel), 6)),
       LowBits(data, 8) % 256 >>

(* Mcp4922::output: the two bytes handed to the SPI bus, buffer[0] first *)
buffer(data, channel) ==
    << BitOr(BitOr(LowBits(data \div 2^8, 4) % 256, ShiftLeftU8(1, 4)),
             ShiftLeftU8(u8_from_channel(channel), 7)),
       LowBits(data, 8) % 256 >>

\* what happened on the chip-select line and the bus, in order
CsEvent(level) == [ev |-> level, word |-> << >>, ok |-> TRUE]

WriteEvent(word, ok) == [ev |-> "write", word |-> word, ok |-> ok]

set_low(d) == [d EXCEPT !.cs = "low", !.bus = Append(@, CsEvent("cs_low"))]

set_high(d) == [d EXCEPT !.cs = "high", !.bus = Append(@, CsEvent("cs_high"))]

\* the driver between calls
NoCall(cs) ==
    [cs |-> cs, pc |-> "idle", fn |-> "none", output_a |-> 0, output_b |-> 0,
     data |-> 0, channel |-> "A", err |-> FALSE, bus |-> << >>,
     result |-> "none"]

(* Mcp4922::new: unselect the device *)
Mcp4922_new(cs) == NoCall("high")

(* output entered with its arguments *)
output_enter(d, data, channel) ==
    [d EXCEPT !.pc = "output", !.data = data, !.channel = channel,
              !.err = FALSE]

(* Mcp4922::output, self.cs.set_low() *)
output_select(d) == [set_low(d) EXCEPT !.pc = "selected"]

(* Mcp4922::output, self.spi.write(&buffer), which succeeds or fails *)
output_write(d, ok) ==
    [d EXCEPT !.bus = Append(@, WriteEvent(buffer(d.data, d.channel), ok)),
              !.pc = IF ok THEN "written" ELSE "failed"]

(* output that returns the error with the device still selected *)
output_exit_SelectHeldOnError(d) ==
    IF d.pc = "failed"
    THEN [d EXCEPT !.pc = "exit", !.err = TRUE]
    ELSE [set_high(d) EXCEPT !.pc = "exit", !.err = FALSE]

(* Mcp4922::output after the write: set_high on either path, then Err or Ok *)
output_exit(d) ==
    IF d.pc = "failed"
    THEN [set_high(d) EXCEPT !.pc = "exit", !.err = TRUE]
    ELSE [set_high(d) EXCEPT !.pc = "exit", !.err = FALSE]

\* the call returns r to its caller
Returned(d, r) == [d EXCEPT !.pc = "returned", !.result = r]

(* output_ab that goes on to channel B whatever channel A returned *)
output_returned_IgnoresA(d) ==
    IF d.fn = "output_ab" /\ d.channel = "A"
    THEN output_enter(d, d.output_b, "B")
    ELSE Returned(d, IF d.err THEN "err" ELSE "ok")

(* output has returned: to the caller, or into Mcp4922::output_ab, where ?
   returns the error of channel A and otherwise channel B is written *)
output_returned(d) ==
    IF d.fn = "output_ab" /\ d.channel = "A"
    THEN IF d.err
         THEN Returned(d, "err")
         ELSE output_enter(d, d.output_b, "B")
    ELSE Returned(d, IF d.err THEN "err" ELSE "ok")

----------------------------------------------------------------------------
(* The module value handlers work on: the fields of BrakeModule and the
   effects of the running handler *)

Self ==
    [ enabled            |-> control_state.enabled,
      operator_override  |-> control_state.operator_override,
      dtcs               |-> control_state.dtcs,
      spoof_enable       |-> brake_pins.spoof_enable,
      brake_light_enable |-> brake_pins.brake_light_enable,
      signal             |-> brake_pedal_position,
      grounded           |-> grounded_fault_state,
      override           |-> operator_override_state,
      writes             |-> << >>,
      reports            |-> << >>,
      disables           |-> 0,
      path               |-> "none",
      routed             |-> << >> ]

(* DualSignal::prevent_signal_discontinuity followed by dac_output_a/b:
   the priming pair is the pair of raw values on the sensor wires *)
priming_pair == [a |-> adc[1], b |-> adc[2]]

(* disable_control that leaves the enabled flag set *)
disable_control_KeepsEnabled(s, spi) ==
    LET called == [s EXCEPT !.disables = @ + 1]
    IN  IF s.enabled
        THEN [called EXCEPT
                !.writes = @ \o output_ab(priming_pair.a, priming_pair.b, spi),
                !.spoof_enable = FALSE,
                !.brake_light_enable = FALSE]
        ELSE called

(* disable_control that does not look at the enabled flag *)
disable_control_Unguarded(s, spi) ==
    [s EXCEPT
        !.disables = @ + 1,
        !.writes = @ \o output_ab(priming_pair.a, priming_pair.b, spi),
        !.spoof_enable = FALSE,
        !.brake_light_enable = FALSE,
        !.enabled = FALSE]

(* disable_control that leaves the brake light as it is *)
disable_control_LeavesLight(s, spi) ==
    LET called == [s EXCEPT !.disables = @ + 1]
    IN  IF s.enabled
        THEN [called EXCEPT
                !.writes = @ \o output_ab(priming_pair.a, priming_pair.b, spi),
                !.spoof_enable = FALSE,
                !.enabled = FALSE]
        ELSE called

(* BrakeModule::disable_control *)
disable_control(s, spi) ==
    LET called == [s EXCEPT !.disables = @ + 1]
    IN  IF s.enabled
        THEN [called EXCEPT
                !.writes = @ \o output_ab(priming_pair.a, priming_pair.b, spi),
                !.spoof_enable = FALSE,
                !.brake_light_enable = FALSE,
                !.enabled = FALSE]
        ELSE called

(* enable_control that does not look at the override flag *)
enable_control_IgnoresOverride(s, spi) ==
    IF ~s.enabled
    THEN [s EXCEPT
            !.writes = @ \o output_ab(priming_pair.a, priming_pair.b, spi),
            !.spoof_enable = TRUE,
            !.enabled = TRUE]
    ELSE s

(* enable_control that starts from a clean diagnostic bitfield *)
enable_control_ClearsDtcs(s, spi) ==
    IF ~s.enabled /\ ~s.operator_override
    THEN [s EXCEPT
            !.writes = @ \o output_ab(priming_pair.a, priming_pair.b, spi),
            !.spoof_enable = TRUE,
            !.enabled = TRUE,
            !.dtcs = 0]
    ELSE s

(* BrakeModule::enable_control *)
enable_control(s, spi) ==
    IF ~s.enabled /\ ~s.operator_override
    THEN [s EXCEPT
            !.writes = @ \o output_ab(priming_pair.a, priming_pair.b, spi),
            !.spoof_enable = TRUE,
            !.enabled = TRUE]
    ELSE s

(* update_brake that does not look at the enabled flag *)
update_brake_Unguarded(s, spoof_command_high, spoof_command_low, spi) ==
    LET spoof_high == clamp(spoof_command_high,
                            BRAKE_SPOOF_HIGH_SIGNAL_RANGE_MIN,
                            BRAKE_SPOOF_HIGH_SIGNAL_RANGE_MAX)
        spoof_low  == clamp(spoof_command_low,
                            BRAKE_SPOOF_LOW_SIGNAL_RANGE_MIN,
                            BRAKE_SPOOF_LOW_SIGNAL_RANGE_MAX)
    IN  [s EXCEPT
           !.brake_light_enable =
               (spoof_high > BRAKE_LIGHT_SPOOF_HIGH_THRESHOLD)
               \/ (spoof_low > BRAKE_LIGHT_SPOOF_LOW_THRESHOLD),
           !.writes = @ \o output_ab(spoof_high, spoof_low, spi)]

(* update_brake that clamps the high value to the low channel's range *)
update_brake_LowRangeTwice(s, spoof_command_high, spoof_command_low, spi) ==
    IF s.enabled
    THEN LET spoof_high == clamp(spoof_command_high,
                                 BRAKE_SPOOF_LOW_SIGNAL_RANGE_MIN,
                                 BRAKE_SPOOF_LOW_SIGNAL_RANGE_MAX)
             spoof_low  == clamp(spoof_command_low,
                                 BRAKE_SPOOF_LOW_SIGNAL_RANGE_MIN,
                                 BRAKE_SPOOF_LOW_SIGNAL_RANGE_MAX)
         IN  [s EXCEPT
                !.brake_light_enable =
                    (spoof_high > BRAKE_LIGHT_SPOOF_HIGH_THRESHOLD)
                    \/ (spoof_low > BRAKE_LIGHT_SPOOF_LOW_THRESHOLD),
                !.writes = @ \o output_ab(spoof_high, spoof_low, spi)]
    ELSE s

(* update_brake that lights the brake light at the threshold already *)
update_brake_LightAtThreshold(s, spoof_command_high, spoof_command_low, spi) ==
    IF s.enabled
    THEN LET spoof_high == clamp(spoof_command_high,
                                 BRAKE_SPOOF_HIGH_SIGNAL_RANGE_MIN,
                                 BRAKE_SPOOF_HIGH_SIGNAL_RANGE_MAX)
             spoof_low  == clamp(spoof_command_low,
                                 BRAKE_SPOOF_LOW_SIGNAL_RANGE_MIN,
                                 BRAKE_SPOOF_LOW_SIGNAL_RANGE_MAX)
         IN  [s EXCEPT
                !.brake_light_enable =
                    (spoof_high >= BRAKE_LIGHT_SPOOF_HIGH_THRESHOLD)
                    \/ (spoof_low >= BRAKE_LIGHT_SPOOF_LOW_THRESHOLD),
                !.writes = @ \o output_ab(spoof_high, spoof_low, spi)]
    ELSE s

(* BrakeModule::update_brake *)
update_brake(s, spoof_command_high, spoof_command_low, spi) ==
    IF s.enabled
    THEN LET spoof_high == clamp(spoof_command_high,
                                 BRAKE_SPOOF_HIGH_SIGNAL_RANGE_MIN,
                                 BRAKE_SPOOF_HIGH_SIGNAL_RANGE_MAX)
             spoof_low  == clamp(spoof_command_low,
                                 BRAKE_SPOOF_LOW_SIGNAL_RANGE_MIN,
                                 BRAKE_SPOOF_LOW_SIGNAL_RANGE_MAX)
         IN  [s EXCEPT
                !.brake_light_enable =
                    (spoof_high > BRAKE_LIGHT_SPOOF_HIGH_THRESHOLD)
                    \/ (spoof_low > BRAKE_LIGHT_SPOOF_LOW_THRESHOLD),
                !.writes = @ \o output_ab(spoof_high, spoof_low, spi)]
    ELSE s

(* BrakeModule::publish_fault_report: the frame carries the current dtcs *)
publish_fault_report(s) == [s EXCEPT !.reports = Append(@, s.dtcs)]

(* BrakeModule::read_brake_pedal_position_sensor, DualSignal::update *)
read_brake_pedal_position_sensor(s) ==
    [s EXCEPT !.signal = [high |-> adc[1], low |-> adc[2]]]

(* BrakeModule::check_for_faults, lines 160-173: the grounded-sensor path *)
grounded_path(s, spi) ==
    LET disabled == disable_control(s, spi)
        coded    == [disabled EXCEPT
                        !.dtcs = DtcSet(@, OSCC_BRAKE_DTC_INVALID_SENSOR_VAL)]
    IN  [publish_fault_report(coded) EXCEPT !.path = "grounded"]

(* BrakeModule::check_for_faults, lines 181-191: the operator-override path *)
override_path(s, spi) ==
    LET disabled == disable_control(s, spi)
        coded    == [disabled EXCEPT
                        !.dtcs = DtcSet(@, OSCC_BRAKE_DTC_OPERATOR_OVERRIDE)]
    IN  [publish_fault_report(coded) EXCEPT
            !.operator_override = TRUE,
            !.path = "override"]

(* BrakeModule::check_for_faults, lines 193-194: the final else *)
clear_path(s) ==
    [s EXCEPT !.dtcs = 0, !.operator_override = FALSE, !.path = "clear"]

(* a branch that tests the operator override before the grounded sensor *)
fault_branch_OverrideFirst(s, inputs_grounded, operator_overridden, spi) ==
    IF operator_overridden /\ ~s.operator_override
    THEN override_path(s, spi)
    ELSE IF inputs_grounded
         THEN grounded_path(s, spi)
         ELSE clear_path(s)

(* BrakeModule::check_for_faults, lines 161, 174, 192: which path runs *)
fault_branch(s, inputs_grounded, operator_overridden, spi) ==
    IF inputs_grounded
    THEN grounded_path(s, spi)
    ELSE IF operator_overridden /\ ~s.operator_override
         THEN override_path(s, spi)
         ELSE clear_path(s)

(* BrakeModule::check_for_faults, lines 147-195: the two latches are left
   as ovr and gnd by their evaluation, and the branch acts on what they
   returned *)
latch_and_branch(s, ovr, gnd, spi) ==
    LET latched == [s EXCEPT !.override = ovr, !.grounded = gnd]
    IN  fault_branch(latched, gnd.confirmed, ovr.confirmed, spi)

(* check_for_faults that runs whatever the control state *)
check_for_faults_Unguarded(s, spi, t) ==
    LET sampled == read_brake_pedal_position_sensor(s)
        brake_pedal_position_average == average(sampled.signal)
        ovr == condition_exceeded_duration(
                   sampled.override,
                   brake_pedal_position_average
                       >= BRAKE_PEDAL_OVERRIDE_THRESHOLD,
                   FAULT_HYSTERESIS, t)
        gnd == check_voltage_grounded(
                   sampled.grounded, sampled.signal, FAULT_HYSTERESIS, t)
    IN  latch_and_branch(sampled, ovr, gnd, spi)

(* check_for_faults that runs both checks on the operator-override latch *)
check_for_faults_SharedLatch(s, spi, t) ==
    IF s.enabled \/ s.dtcs > 0
    THEN LET sampled == read_brake_pedal_position_sensor(s)
             brake_pedal_position_average == average(sampled.signal)
             ovr == condition_exceeded_duration(
                        sampled.override,
                        brake_pedal_position_average
                            >= BRAKE_PEDAL_OVERRIDE_THRESHOLD,
                        FAULT_HYSTERESIS, t)
             gnd == check_voltage_grounded(
                        ovr, sampled.signal, FAULT_HYSTERESIS, t)
         IN  latch_and_branch(sampled, ovr, gnd, spi)
    ELSE [s EXCEPT !.path = "skipped"]

(* BrakeModule::check_for_faults at time t *)
check_for_faults(s, spi, t) ==
    IF s.enabled \/ s.dtcs > 0
    THEN LET sampled == read_brake_pedal_position_sensor(s)
             brake_pedal_position_average == average(sampled.signal)
             ovr == condition_exceeded_duration(
                        sampled.override,
                        brake_pedal_position_average
                            >= BRAKE_PEDAL_OVERRIDE_THRESHOLD,
                        FAULT_HYSTERESIS, t)
             gnd == check_voltage_grounded(
                        sampled.grounded, sampled.signal, FAULT_HYSTERESIS, t)
         IN  latch_and_branch(sampled, ovr, gnd, spi)
    ELSE [s EXCEPT !.path = "skipped"]

(* BrakeModule::check_for_faults when nothing is assumed of FaultCondition:
   each latch returns either answer *)
check_for_faults_any_latch(s, spi, ovr, gnd) ==
    IF s.enabled \/ s.dtcs > 0
    THEN latch_and_branch(read_brake_pedal_position_sensor(s), ovr, gnd, spi)
    ELSE [s EXCEPT !.path = "skipped"]

(* vehicle::brake_position_to_volts_low, in millivolts *)
brake_position_to_volts_low(position) ==
    BRAKE_SPOOF_LOW_SIGNAL_VOLTAGE_MIN
    + (position * (BRAKE_SPOOF_LOW_SIGNAL_VOLTAGE_MAX
                   - BRAKE_SPOOF_LOW_SIGNAL_VOLTAGE_MIN)) \div 1000

(* vehicle::brake_position_to_volts_high, in millivolts *)
brake_position_to_volts_high(position) ==
    BRAKE_SPOOF_HIGH_SIGNAL_VOLTAGE_MIN
    + (position * (BRAKE_SPOOF_HIGH_SIGNAL_VOLTAGE_MAX
                   - BRAKE_SPOOF_HIGH_SIGNAL_VOLTAGE_MIN)) \div 1000

(* (STEPS_PER_VOLT * volts) as u16: truncation toward zero *)
volts_to_steps(millivolts) == (millivolts * STEPS_PER_10_VOLT) \div 10000

(* BrakeModule::process_brake_command *)
process_brake_command(s, pedal_command, spi) ==
    LET clamped_position == clamp(pedal_command,
                                  MINIMUM_BRAKE_COMMAND, MAXIMUM_BRAKE_COMMAND)
        spoof_voltage_low  == clamp(brake_position_to_volts_low(clamped_position),
                                    BRAKE_SPOOF_LOW_SIGNAL_VOLTAGE_MIN,
                                    BRAKE_SPOOF_LOW_SIGNAL_VOLTAGE_MAX)
        spoof_voltage_high == clamp(brake_position_to_volts_high(clamped_position),
                                    BRAKE_SPOOF_HIGH_SIGNAL_VOLTAGE_MIN,
                                    BRAKE_SPOOF_HIGH_SIGNAL_VOLTAGE_MAX)
        spoof_value_low  == volts_to_steps(spoof_voltage_low)
        spoof_value_high == volts_to_steps(spoof_voltage_high)
    IN  update_brake(s, spoof_value_high, spoof_value_low, spi)

(* process_fault_report that answers with a fault report of its own *)
process_fault_report_Reports(s, spi) ==
    publish_fault_report(disable_control(s, spi))

(* BrakeModule::process_fault_report *)
process_fault_report(s, spi) == disable_control(s, spi)

(* the frames process_rx_frame tells apart: data or remote frame, marker
   present or not, the identity of the message, and the pedal command of a
   brake command *)
FrameIds == { "enable", "disable", "command", "fault_report", "other" }

Frames ==
    { [data |-> TRUE, magic |-> TRUE, id |-> id, pedal_command |-> 0] :
        id \in FrameIds \ {"command"} }
    \cup { [data |-> TRUE, magic |-> TRUE, id |-> "command",
            pedal_command |-> p] : p \in PedalCommands }
    \cup { [data |-> TRUE, magic |-> FALSE, id |-> id, pedal_command |-> 1000] :
             id \in {"enable", "disable", "command"} }
    \cup { [data |-> FALSE, magic |-> FALSE, id |-> "enable",
            pedal_command |-> 0] }

(* the handler named by a frame's identity ran *)
Routed(s, handler) == [s EXCEPT !.routed = Append(@, handler)]

(* process_rx_frame that does not test the marker bytes *)
process_rx_frame_AnyMarker(s, frame, spi) ==
    IF frame.data
    THEN IF frame.id = "enable"
              THEN Routed(enable_control(s, spi), "enable")
         ELSE IF frame.id = "disable"
              THEN Routed(disable_control(s, spi), "disable")
         ELSE IF frame.id = "command"
              THEN Routed(process_brake_command(s, frame.pedal_command, spi),
                          "command")
         ELSE IF frame.id = "fault_report"
              THEN Routed(process_fault_report(s, spi), "fault_report")
         ELSE s
    ELSE s

(* BrakeModule::process_rx_frame *)
process_rx_frame(s, frame, spi) ==
    IF frame.data
    THEN IF frame.magic
         THEN IF frame.id = "enable"
                   THEN Routed(enable_control(s, spi), "enable")
              ELSE IF frame.id = "disable"
                   THEN Routed(disable_control(s, spi), "disable")
              ELSE IF frame.id = "command"
                   THEN Routed(process_brake_command(s, frame.pedal_command,
                                                     spi), "command")
              ELSE IF frame.id = "fault_report"
                   THEN Routed(process_fault_report(s, spi), "fault_report")
              ELSE s
         ELSE s
    ELSE s

----------------------------------------------------------------------------
(* State *)

NoFrame == [data |-> FALSE, magic |-> FALSE, id |-> "none", pedal_command |-> 0]

NoCommand == <<0, 0>>

NoStatus == [enabled |-> FALSE, operator_override |-> FALSE, dtcs |-> 0 - 1]

Snapshot ==
    [ enabled            |-> control_state.enabled,
      operator_override  |-> control_state.operator_override,
      dtcs               |-> control_state.dtcs,
      spoof_enable       |-> brake_pins.spoof_enable,
      brake_light_enable |-> brake_pins.brake_light_enable ]

(* BrakeControlState::new *)
NewBrakeControlState ==
    [enabled |-> FALSE, operator_override |-> FALSE, dtcs |-> 0]

(* BrakeModule::new; the output pins are in whatever state the board left them *)
Init ==
    /\ initialized = FALSE
    /\ control_state = NewBrakeControlState
    /\ brake_pins \in [spoof_enable : BOOLEAN, brake_light_enable : BOOLEAN]
    /\ brake_pedal_position = [high |-> 0, low |-> 0]
    /\ grounded_fault_state = NewFaultCondition
    /\ operator_override_state = NewFaultCondition
    /\ adc \in AdcSamples
    /\ now = 0
    /\ override_episode = 0
    /\ \E cs \in PinLevels : brake_dac = Mcp4922_new(cs)
    /\ last = [op |-> "new", frame |-> NoFrame, cmd |-> NoCommand,
               path |-> "none", routed |-> << >>, writes |-> << >>,
               reports |-> << >>, disables |-> 0, status |-> NoStatus,
               after |-> "none", pre |-> Snapshot]

(* the fields of the module after a handler returned r *)
Store(r) ==
    /\ control_state' = [enabled |-> r.enabled,
                         operator_override |-> r.operator_override,
                         dtcs |-> r.dtcs]
    /\ brake_pins' = [spoof_enable |-> r.spoof_enable,
                      brake_light_enable |-> r.brake_light_enable]
    /\ brake_pedal_position' = r.signal
    /\ grounded_fault_state' = r.grounded
    /\ operator_override_state' = r.override

(* what the operation op did, for the properties *)
Record(op, frame, cmd, r) ==
    last' = [op |-> op, frame |-> frame, cmd |-> cmd, path |-> r.path,
             routed |-> r.routed, writes |-> r.writes,
             reports |-> r.reports, disables |-> r.disables,
             status |-> NoStatus, after |-> "none", pre |-> Snapshot]

(* BrakeModule::init_devices *)
InitDevices ==
    /\ ~initialized
    /\ initialized' = TRUE
    /\ brake_pins' = [spoof_enable |-> FALSE, brake_light_enable |-> FALSE]
    /\ Record("init_devices", NoFrame, NoCommand, Self)
    /\ UNCHANGED <<control_state, brake_pedal_position, grounded_fault_state,
                   operator_override_state, adc, now, override_episode, brake_dac>>

(* an inbound frame is dispatched *)
RxFrame ==
    /\ initialized
    /\ \E frame \in Frames, spi \in SpiOutcomes :
         LET r == process_rx_frame(Self, frame, spi)
         IN  /\ Store(r)
             /\ Record("rx_frame", frame, NoCommand, r)
    /\ UNCHANGED <<initialized, adc, now, override_episode, brake_dac>>

(* update_brake called with arbitrary u16 arguments *)
UpdateBrake ==
    /\ initialized
    /\ \E cmd \in CommandPairs, spi \in SpiOutcomes :
         LET r == update_brake(Self, cmd[1], cmd[2], spi)
         IN  /\ Store(r)
             /\ Record("update_brake", NoFrame, cmd, r)
    /\ UNCHANGED <<initialized, adc, now, override_episode, brake_dac>>

(* the override-path runs of the current override episode after a cycle *)
EpisodeAfter(r) ==
    IF r.path = "skipped" THEN override_episode
    ELSE IF ~r.override.confirmed THEN 0
    ELSE IF r.path = "override" /\ override_episode < MaxEpisodeCount
         THEN override_episode + 1
    ELSE override_episode

(* one periodic check_for_faults cycle *)
CheckForFaults ==
    /\ initialized
    /\ \E spi \in SpiOutcomes :
         LET r == check_for_faults(Self, spi, now)
         IN  /\ Store(r)
             /\ Record("check_for_faults", NoFrame, NoCommand, r)
             /\ override_episode' = EpisodeAfter(r)
    /\ UNCHANGED <<initialized, adc, now, brake_dac>>

(* a latch that answered as told *)
AnyLatch(confirmed) ==
    [start |-> IF confirmed THEN 0 ELSE NoTime, confirmed |-> confirmed]

(* one periodic check_for_faults cycle, each latch answering either way *)
CheckForFaultsAnyLatch ==
    /\ initialized
    /\ \E spi \in SpiOutcomes, ovr \in BOOLEAN, gnd \in BOOLEAN :
         LET r == check_for_faults_any_latch(Self, spi, AnyLatch(ovr),
                                             AnyLatch(gnd))
         IN  /\ Store(r)
             /\ Record("check_for_faults", NoFrame, NoCommand, r)
             /\ override_episode' = EpisodeAfter(r)
    /\ UNCHANGED <<initialized, adc, now, brake_dac>>

(* BrakeModule::publish_brake_report: the status frame carries the control state *)
PublishBrakeReport ==
    /\ initialized
    /\ last' = [op |-> "publish_brake_report", frame |-> NoFrame,
                cmd |-> NoCommand, path |-> "none", routed |-> << >>,
                writes |-> << >>, reports |-> << >>, disables |-> 0,
                status |-> control_state,
                after |-> IF last.op = "rx_frame" /\ last.frame.magic
                          THEN last.frame.id ELSE last.op,
                pre |-> Snapshot]
    /\ UNCHANGED <<initialized, control_state, brake_pins, brake_pedal_position,
                   grounded_fault_state, operator_override_state, adc, now,
                   override_episode, brake_dac>>

(* the driver moves the pedal, or a sensor wire comes loose *)
AdcChange ==
    /\ \E sample \in AdcSamples \ {adc} :
         /\ adc' = sample
         /\ override_episode' =
              IF (sample[1] + sample[2]) \div 2 >= BRAKE_PEDAL_OVERRIDE_THRESHOLD
              THEN override_episode ELSE 0
    /\ UNCHANGED <<initialized, control_state, brake_pins, brake_pedal_position,
                   grounded_fault_state, operator_override_state, now,
                   brake_dac, last>>

(* time passes *)
Tick ==
    /\ now < MaxTime
    /\ now' = now + 1
    /\ UNCHANGED <<initialized, control_state, brake_pins, brake_pedal_position,
                   grounded_fault_state, operator_override_state, adc,
                   override_episode, brake_dac, last>>

Next ==
    \/ InitDevices
    \/ RxFrame
    \/ UpdateBrake
    \/ CheckForFaults
    \/ PublishBrakeReport
    \/ AdcChange
    \/ Tick

Spec == Init /\ [][Next]_vars

(* the module with the fault latches left open: every interleaving of
   frames, commands and cycles with arbitrary latch outcomes *)
NextAnyLatch ==
    \/ InitDevices
    \/ RxFrame
    \/ UpdateBrake
    \/ CheckForFaultsAnyLatch
    \/ PublishBrakeReport
    \/ AdcChange

SpecAnyLatch == Init /\ [][NextAnyLatch]_vars

(* the driver on its own: any sequence of output and output_ab calls, each
   run statement by statement with the bus succeeding or failing *)

\* the brake module does nothing meanwhile
ModuleIdle ==
    UNCHANGED <<initialized, control_state, brake_pins, brake_pedal_position,
                grounded_fault_state, operator_override_state, adc, now,
                override_episode, last>>

(* a caller calls output(data, channel) *)
DacOutput ==
    /\ brake_dac.pc = "idle"
    /\ \E data \in 0..DAC_MAX, channel \in Channels :
         brake_dac' = output_enter([brake_dac EXCEPT !.fn = "output",
                                                     !.result = "none"],
                                   data, channel)
    /\ ModuleIdle

(* a caller calls output_ab(output_a, output_b) *)
DacOutputAb ==
    /\ brake_dac.pc = "idle"
    /\ \E pair \in DacPairs :
         brake_dac' = output_enter(
                          [brake_dac EXCEPT !.fn = "output_ab",
                                            !.result = "none",
                                            !.output_a = pair[1],
                                            !.output_b = pair[2]],
                          pair[1], "A")
    /\ ModuleIdle

DacSelect ==
    /\ brake_dac.pc = "output"
    /\ brake_dac' = output_select(brake_dac)
    /\ ModuleIdle

DacWrite ==
    /\ brake_dac.pc = "selected"
    /\ \E ok \in BOOLEAN : brake_dac' = output_write(brake_dac, ok)
    /\ ModuleIdle

DacExit ==
    /\ brake_dac.pc \in {"written", "failed"}
    /\ brake_dac' = output_exit(brake_dac)
    /\ ModuleIdle

DacOutputReturned ==
    /\ brake_dac.pc = "exit"
    /\ brake_dac' = output_returned(brake_dac)
    /\ ModuleIdle

(* the caller has the result; the driver waits for the next call *)
DacReturn ==
    /\ brake_dac.pc = "returned"
    /\ brake_dac' = [NoCall(brake_dac.cs) EXCEPT !.result = brake_dac.result]
    /\ ModuleIdle

NextDac ==
    \/ DacOutput
    \/ DacOutputAb
    \/ DacSelect
    \/ DacWrite
    \/ DacExit
    \/ DacOutputReturned
    \/ DacReturn

InitDac ==
    /\ Init
    /\ adc = <<0, 0>>
    /\ brake_pins = [spoof_enable |-> FALSE, brake_light_enable |-> FALSE]

SpecDac == InitDac /\ [][NextDac]_vars

----------------------------------------------------------------------------
(* Vocabulary of the properties *)

HasDtc(dtcs, bit) == (dtcs \div (2 ^ bit)) % 2 = 1

\* the last operation was a marked frame with identity id
LastFrame(id) == last.op = "rx_frame" /\ last.frame.magic /\ last.frame.id = id

\* the last operation was a check_for_faults cycle that passed its guard
CycleRan == last.op = "check_for_faults" /\ last.path # "skipped"

\* a transfer of the last operation failed
TransferFailed == \E i \in 1..Len(last.writes) : ~last.writes[i].ok

\* v is x clamped to lo..hi, stated without the model's clamp
IsClamped(v, x, lo, hi) ==
    /\ v >= lo /\ v <= hi
    /\ (x < lo => v = lo)
    /\ (x > hi => v = hi)
    /\ (x >= lo /\ x <= hi => v = x)

\* the transfers in ws are A then B carrying high, low clamped to their ranges
WritesClamped(ws, high, low) ==
    /\ Len(ws) >= 1
    /\ ws[1].ch = "A"
    /\ IsClamped(ws[1].val, high, BRAKE_SPOOF_HIGH_SIGNAL_RANGE_MIN,
                 BRAKE_SPOOF_HIGH_SIGNAL_RANGE_MAX)
    /\ Len(ws) >= 2 =>
         /\ ws[2].ch = "B"
         /\ IsClamped(ws[2].val, low, BRAKE_SPOOF_LOW_SIGNAL_RANGE_MIN,
                      BRAKE_SPOOF_LOW_SIGNAL_RANGE_MAX)

\* the values update_brake receives for an in-range pedal command
SpoofValues(position) ==
    << volts_to_steps(brake_position_to_volts_high(position)),
       volts_to_steps(brake_position_to_volts_low(position)) >>

----------------------------------------------------------------------------
(* C1: in every state reachable by any interleaving of frames, commands and
   check_for_faults cycles with arbitrary latch outcomes,
   operator_override = TRUE implies enabled = FALSE. *)
OverrideImpliesDisabled ==
    control_state.operator_override => ~control_state.enabled

\* an enable frame arrived while the override flag was set, and was refused
OverrideImpliesDisabled_Witness ==
    /\ LastFrame("enable")
    /\ last.pre.operator_override
    /\ control_state.operator_override
    /\ ~control_state.enabled

(* C2: a check_for_faults cycle in which the grounded latch or the override
   latch read confirmed ends with the module disabled and spoof-enable low,
   whatever the control state was before. *)
ConfirmedFaultDisables ==
    (CycleRan /\ (grounded_fault_state.confirmed
                  \/ operator_override_state.confirmed))
        => (~control_state.enabled /\ ~brake_pins.spoof_enable)

\* the override latch confirmed on a cycle that started enabled
ConfirmedFaultDisables_Witness ==
    /\ CycleRan
    /\ operator_override_state.confirmed
    /\ last.pre.enabled /\ last.pre.spoof_enable
    /\ ~control_state.enabled /\ ~brake_pins.spoof_enable

(* C3: the override path of check_for_faults (disable, operator-override
   code, fault report) runs at most once per override episode, that is
   while the pedal stays pressed and the override latch stays confirmed,
   enable requests included. *)
OverridePathOncePerEpisode == override_episode <= 1

(* C4: on every executed cycle in which the grounded latch is confirmed the
   grounded path runs, whatever the override latch says: disable is called,
   the invalid-sensor-value code is set, one fault report carrying it is
   published, and the override flag is left as it was; also when the module
   was already disabled with a code of another cause. *)
GroundedPathEveryCycle ==
    (CycleRan /\ grounded_fault_state.confirmed)
        => /\ last.path = "grounded"
           /\ last.disables = 1
           /\ ~control_state.enabled
           /\ HasDtc(control_state.dtcs, OSCC_BRAKE_DTC_INVALID_SENSOR_VAL)
           /\ Len(last.reports) = 1
           /\ last.reports[1] = control_state.dtcs
           /\ control_state.operator_override = last.pre.operator_override

\* both latches confirmed on a cycle that started disabled with only the
\* operator-override code latched; the grounded path ran and reported both
\* codes
GroundedPathEveryCycle_Witness ==
    /\ CycleRan
    /\ grounded_fault_state.confirmed
    /\ operator_override_state.confirmed
    /\ ~last.pre.enabled
    /\ last.pre.dtcs = 2 ^ OSCC_BRAKE_DTC_OPERATOR_OVERRIDE
    /\ last.path = "grounded"
    /\ Len(last.reports) = 1
    /\ HasDtc(last.reports[1], OSCC_BRAKE_DTC_OPERATOR_OVERRIDE)
    /\ HasDtc(last.reports[1], OSCC_BRAKE_DTC_INVALID_SENSOR_VAL)

(* C5: diagnostic_codes goes from non-zero to zero only in a
   check_for_faults cycle in which neither latch is confirmed. *)
DtcsClearedOnlyWhenNeitherConfirmed ==
    (last.pre.dtcs # 0 /\ control_state.dtcs = 0)
        => /\ CycleRan
           /\ ~grounded_fault_state.confirmed
           /\ ~operator_override_state.confirmed

(* C6: while the override latch is still confirmed the override flag is not
   cleared and the module does not become enabled. *)
OverriddenHeldWhileConfirmed ==
    /\ (last.pre.operator_override /\ ~control_state.operator_override)
          => ~operator_override_state.confirmed
    /\ (~last.pre.enabled /\ control_state.enabled)
          => ~operator_override_state.confirmed

(* C7: update_brake called while disabled, directly or through a
   brake-command frame, writes nothing to the DAC and leaves the brake
   light, the spoof-enable pin and the control state as they were. *)
UpdateWhileDisabledNoEffect ==
    ((last.op = "update_brake" \/ LastFrame("command")) /\ ~last.pre.enabled)
        => /\ last.writes = << >>
           /\ Snapshot = last.pre

\* a full-travel brake command arrived while the module was disabled
UpdateWhileDisabledNoEffect_Witness ==
    /\ LastFrame("command")
    /\ last.frame.pedal_command = MAXIMUM_BRAKE_COMMAND
    /\ ~last.pre.enabled
    /\ last.writes = << >>

(* C8: a brake command applied while enabled writes the high target clamped
   to the high range to channel A and the low target clamped to the low
   range to channel B; a pedal command outside the command range writes
   what the nearest boundary command writes. *)
WritesAreClamped ==
    /\ (last.op = "update_brake" /\ last.pre.enabled)
          => WritesClamped(last.writes, last.cmd[1], last.cmd[2])
    /\ (LastFrame("command") /\ last.pre.enabled)
          => LET p == last.frame.pedal_command
                 nearest == IF p < MINIMUM_BRAKE_COMMAND
                            THEN MINIMUM_BRAKE_COMMAND
                            ELSE IF p > MAXIMUM_BRAKE_COMMAND
                                 THEN MAXIMUM_BRAKE_COMMAND
                                 ELSE p
             IN  WritesClamped(last.writes, SpoofValues(nearest)[1],
                               SpoofValues(nearest)[2])

\* a pedal command above the range was applied while enabled and both
\* channels were written
WritesAreClamped_Witness ==
    /\ LastFrame("command")
    /\ last.frame.pedal_command > MAXIMUM_BRAKE_COMMAND
    /\ last.pre.enabled
    /\ Len(last.writes) = 2
    /\ last.writes[2].ok

(* C9: when a transfer of an output_ab call made by enable, disable or
   update_brake fails, the module ends up disabled and a fault report is
   published. *)
FailedTransferDisablesAndReports ==
    (TransferFailed /\ (last.op = "update_brake" \/ LastFrame("enable")
                        \/ LastFrame("disable") \/ LastFrame("command")))
        => (~control_state.enabled /\ Len(last.reports) >= 1)

(* C10: a marked fault-report frame leaves the module disabled, leaves
   diagnostic_codes and operator_override as they were and publishes no
   fault report; the status report that follows carries enabled = FALSE and
   the unchanged codes. *)
FaultReportFrameDisables ==
    /\ LastFrame("fault_report")
          => /\ ~control_state.enabled
             /\ ~brake_pins.spoof_enable
             /\ control_state.dtcs = last.pre.dtcs
             /\ control_state.operator_override = last.pre.operator_override
             /\ last.reports = << >>
    /\ (last.op = "publish_brake_report" /\ last.after = "fault_report")
          => /\ ~last.status.enabled
             /\ last.status = control_state

\* a fault-report frame arrived while the module was enabled with a code
\* latched
FaultReportFrameDisables_Witness ==
    /\ LastFrame("fault_report")
    /\ last.pre.enabled
    /\ last.pre.dtcs # 0
    /\ ~control_state.enabled
    /\ control_state.dtcs = last.pre.dtcs

(* C11: disable leaves enabled = FALSE from any state; called when already
   disabled it changes no state, writes nothing and moves no pin; two
   disables in a row leave the state and the writes of one; it never changes
   operator_override or diagnostic_codes. *)
DisableIdempotent ==
    /\ LastFrame("disable")
          => /\ ~control_state.enabled
             /\ control_state.operator_override = last.pre.operator_override
             /\ control_state.dtcs = last.pre.dtcs
             /\ ~last.pre.enabled => (Snapshot = last.pre /\ last.writes = << >>)
    /\ \A spi1 \in SpiOutcomes, spi2 \in SpiOutcomes :
          LET once  == disable_control(Self, spi1)
              twice == disable_control(once, spi2)
          IN  /\ ~once.enabled
              /\ [twice EXCEPT !.disables = 0] = [once EXCEPT !.disables = 0]

\* a disable frame arrived while the module was already disabled, with the
\* override flag set and its code latched
DisableIdempotent_Witness ==
    /\ LastFrame("disable")
    /\ ~last.pre.enabled
    /\ last.pre.operator_override
    /\ last.pre.dtcs # 0
    /\ last.disables = 1
    /\ last.writes = << >>

\* ws are the transfers of one output_ab call with sensor readings: channel
\* A, then channel B unless the first transfer failed
OnePrimingPair(ws) ==
    /\ Len(ws) \in {1, 2}
    /\ ws[1].ch = "A"
    /\ \E sample \in AdcSamples :
          /\ ws[1].val = sample[1]
          /\ Len(ws) = 2 => ws[2].val = sample[2]
    /\ Len(ws) = 1 => ~ws[1].ok
    /\ Len(ws) = 2 => (ws[1].ok /\ ws[2].ch = "B")

(* C14: an enable frame takes effect exactly when the module is disabled and
   operator_override is clear: one priming pair is written, spoof-enable is
   asserted and enabled becomes TRUE, and the status report that follows
   carries enabled = TRUE; otherwise no state changes, nothing is written
   and no pin moves. operator_override and diagnostic_codes never change. *)
EnableTakesEffectWhenAllowed ==
    /\ LastFrame("enable")
          => /\ control_state.operator_override = last.pre.operator_override
             /\ control_state.dtcs = last.pre.dtcs
             /\ brake_pins.brake_light_enable = last.pre.brake_light_enable
             /\ last.reports = << >>
             /\ IF ~last.pre.enabled /\ ~last.pre.operator_override
                THEN /\ control_state.enabled
                     /\ brake_pins.spoof_enable
                     /\ OnePrimingPair(last.writes)
                ELSE /\ Snapshot = last.pre
                     /\ last.writes = << >>
    /\ (last.op = "publish_brake_report" /\ last.after = "enable")
          => /\ last.status = control_state
             /\ last.status.enabled = ~last.status.operator_override

\* an enable frame arrived while the module was disabled with a code latched
\* and the override flag clear, and enabled it
EnableTakesEffectWhenAllowed_Witness ==
    /\ LastFrame("enable")
    /\ ~last.pre.enabled /\ ~last.pre.spoof_enable
    /\ last.pre.dtcs # 0
    /\ control_state.enabled /\ brake_pins.spoof_enable
    /\ Len(last.writes) = 2

(* C15: process_rx_frame ignores every frame without the marker and every
   marked frame that is none of enable, disable, brake command and fault
   report: control state, pins and DAC are untouched and nothing is
   published. A marked frame of one of the four identities goes to the one
   handler of that identity. *)
DispatchByMarkerAndIdentity ==
    last.op = "rx_frame"
        => IF last.frame.data /\ last.frame.magic
              /\ last.frame.id \in {"enable", "disable", "command",
                                    "fault_report"}
           THEN last.routed = << last.frame.id >>
           ELSE /\ last.routed = << >>
                /\ Snapshot = last.pre
                /\ last.writes = << >>
                /\ last.reports = << >>
                /\ last.disables = 0

\* an enable frame without the marker arrived while the module could have
\* been enabled, and it stayed disabled
DispatchByMarkerAndIdentity_Witness ==
    /\ last.op = "rx_frame"
    /\ last.frame.data /\ ~last.frame.magic /\ last.frame.id = "enable"
    /\ ~last.pre.enabled /\ ~last.pre.operator_override
    /\ ~control_state.enabled
    /\ last.writes = << >>

\* the value of lo..hi nearest to x
Nearest(x, lo, hi) == IF x <= lo THEN lo ELSE IF x >= hi THEN hi ELSE x

\* the brake light that the arguments high, low of update_brake call for
LightFor(high, low) ==
    \/ Nearest(high, BRAKE_SPOOF_HIGH_SIGNAL_RANGE_MIN,
               BRAKE_SPOOF_HIGH_SIGNAL_RANGE_MAX)
          > BRAKE_LIGHT_SPOOF_HIGH_THRESHOLD
    \/ Nearest(low, BRAKE_SPOOF_LOW_SIGNAL_RANGE_MIN,
               BRAKE_SPOOF_LOW_SIGNAL_RANGE_MAX)
          > BRAKE_LIGHT_SPOOF_LOW_THRESHOLD

(* C17: after update_brake ran while enabled, directly or for a brake
   command, the brake light is on exactly when the clamped high value is
   strictly above BRAKE_LIGHT_SPOOF_HIGH_THRESHOLD or the clamped low value
   strictly above BRAKE_LIGHT_SPOOF_LOW_THRESHOLD. *)
BrakeLightFollowsClampedValues ==
    /\ (last.op = "update_brake" /\ last.pre.enabled)
          => /\ brake_pins.brake_light_enable
                   = LightFor(last.cmd[1], last.cmd[2])
             /\ brake_pins.brake_light_enable
                   = (last.writes[1].val > BRAKE_LIGHT_SPOOF_HIGH_THRESHOLD
                      \/ Nearest(last.cmd[2], BRAKE_SPOOF_LOW_SIGNAL_RANGE_MIN,
                                 BRAKE_SPOOF_LOW_SIGNAL_RANGE_MAX)
                            > BRAKE_LIGHT_SPOOF_LOW_THRESHOLD)
    /\ (LastFrame("command") /\ last.pre.enabled)
          => LET p == Nearest(last.frame.pedal_command,
                              MINIMUM_BRAKE_COMMAND, MAXIMUM_BRAKE_COMMAND)
             IN  brake_pins.brake_light_enable
                    = LightFor(SpoofValues(p)[1], SpoofValues(p)[2])

\* update_brake ran with both arguments exactly at their thresholds while the
\* light was on, and switched it off
BrakeLightFollowsClampedValues_Witness ==
    /\ last.op = "update_brake"
    /\ last.pre.enabled
    /\ last.cmd = << BRAKE_LIGHT_SPOOF_HIGH_THRESHOLD,
                     BRAKE_LIGHT_SPOOF_LOW_THRESHOLD >>
    /\ last.pre.brake_light_enable
    /\ ~brake_pins.brake_light_enable

(* C20: once init_devices has run, between operations the spoof-enable pin
   is high exactly when enabled = TRUE and the brake-light pin is high only
   when enabled = TRUE. *)
PinsFollowEnabled ==
    initialized
        => /\ brake_pins.spoof_enable = control_state.enabled
           /\ brake_pins.brake_light_enable => control_state.enabled

\* the module was disabled by a fault cycle while the brake light was on
PinsFollowEnabled_Witness ==
    /\ initialized
    /\ CycleRan
    /\ last.pre.enabled /\ last.pre.spoof_enable /\ last.pre.brake_light_enable
    /\ ~control_state.enabled
    /\ ~brake_pins.spoof_enable /\ ~brake_pins.brake_light_enable

\* this step is a check_for_faults cycle
CycleStep == last'.op = "check_for_faults" /\ now' = now /\ adc' = adc

\* the raw conditions on the sensor wires as they are now
RawOverride == (adc[1] + adc[2]) \div 2 >= BRAKE_PEDAL_OVERRIDE_THRESHOLD

RawGrounded == adc[1] = 0 /\ adc[2] = 0

\* one evaluation takes a latch from before to after when the raw condition
\* is raw: a false reading resets it, the first true reading starts the clock
\* without confirming, and a later true reading confirms exactly when the
\* hysteresis duration has elapsed since the clock started
LatchStep(before_, after_, raw) ==
    /\ ~raw => after_ = [start |-> NoTime, confirmed |-> FALSE]
    /\ (raw /\ before_.start = NoTime)
          => (after_.start = now /\ ~after_.confirmed)
    /\ (raw /\ before_.start # NoTime)
          => /\ after_.start = before_.start
             /\ after_.confirmed = (now - before_.start >= FAULT_HYSTERESIS)

(* C16: on every executed cycle each latch confirms only if its raw condition
   was true on every evaluation since it first became true and at least
   FAULT_HYSTERESIS has elapsed since then: a false reading resets it, so a
   flapping condition never confirms; a held condition confirms at the cycle
   where the elapsed time reaches FAULT_HYSTERESIS and not before; and each
   latch moves by its own state and its own condition only. *)
LatchesConfirmAfterHysteresis ==
    [][ (CycleStep /\ (control_state.enabled \/ control_state.dtcs > 0))
            => /\ LatchStep(operator_override_state, operator_override_state',
                            RawOverride)
               /\ LatchStep(grounded_fault_state, grounded_fault_state',
                            RawGrounded) ]_vars

\* the override latch confirmed on the cycle at which the pedal had been
\* pressed for exactly FAULT_HYSTERESIS, while the grounded latch was reset
LatchesConfirmAfterHysteresis_Witness ==
    /\ CycleRan
    /\ last.path = "override"
    /\ operator_override_state.confirmed
    /\ now - operator_override_state.start = FAULT_HYSTERESIS
    /\ grounded_fault_state = NewFaultCondition

(* C18: a cycle that finds the module disabled with no code latched refreshes
   no sensor, evaluates no latch, publishes nothing and leaves the control
   state and the pins as they were; any other cycle refreshes the sensor
   channel and evaluates both latches on the fresh sample before it acts. *)
CycleWorksOnlyWhenEnabledOrCoded ==
    [][ CycleStep
          => IF ~control_state.enabled /\ control_state.dtcs = 0
             THEN /\ UNCHANGED <<control_state, brake_pins, brake_pedal_position,
                                 grounded_fault_state, operator_override_state>>
                  /\ last'.path = "skipped"
                  /\ last'.reports = << >>
                  /\ last'.writes = << >>
             ELSE /\ brake_pedal_position' = [high |-> adc[1], low |-> adc[2]]
                  /\ (operator_override_state'.start # NoTime) = RawOverride
                  /\ (grounded_fault_state'.start # NoTime) = RawGrounded
                  /\ last'.path \in {"grounded", "override", "clear"} ]_vars

\* a cycle was skipped although the pedal had moved since the last sample and
\* the override latch still held its old answer
CycleWorksOnlyWhenEnabledOrCoded_Witness ==
    /\ last.op = "check_for_faults"
    /\ last.path = "skipped"
    /\ ~control_state.enabled /\ control_state.dtcs = 0
    /\ brake_pedal_position # [high |-> adc[1], low |-> adc[2]]
    /\ operator_override_state.confirmed
    /\ ~RawOverride

\* the write events on the bus, in order
Writes(bus) == SelectSeq(bus, LAMBDA e : e.ev = "write")

\* the driver is inside output with the bytes just handed to the bus
JustWritten == brake_dac.pc \in {"written", "failed"}

WrittenWord == brake_dac.bus[Len(brake_dac.bus)].word

(* C12: for every value v in 0..4095 and either channel, the word output(v, c)
   hands to the bus has two bytes; the second is bits 7..0 of v; the first
   has bits 11..8 of v in bits 3..0, bit 4 set, bits 5 and 6 clear, and bit 7
   clear for channel A and set for channel B. (0, A) is sent as 0x10 0x00 and
   (4095, B) as 0x9F 0xFF. *)
WordEncodesValueAndChannel ==
    JustWritten
        => LET v == brake_dac.data
               c == brake_dac.channel
               hi == WrittenWord[1]
               lo == WrittenWord[2]
           IN  /\ Len(WrittenWord) = 2
               /\ hi \in 0..255 /\ lo \in 0..255
               /\ \A i \in 0..7 : Bit(lo, i) = Bit(v, i)
               /\ \A i \in 0..3 : Bit(hi, i) = Bit(v, i + 8)
               /\ Bit(hi, 4) = 1
               /\ Bit(hi, 5) = 0 /\ Bit(hi, 6) = 0
               /\ Bit(hi, 7) = (IF c = "A" THEN 0 ELSE 1)
               /\ (v = 0 /\ c = "A") => (hi = 16 /\ lo = 0)
               /\ (v = DAC_MAX /\ c = "B") => (hi = 159 /\ lo = 255)

\* full scale was written to channel B by a direct call to output
WordEncodesValueAndChannel_Witness ==
    /\ brake_dac.fn = "output"
    /\ brake_dac.pc = "written"
    /\ brake_dac.data = DAC_MAX
    /\ brake_dac.channel = "B"
    /\ WrittenWord = <<159, 255>>

\* the bus saw nothing but whole chip-select frames: low, one write, high
FramedTransfers(bus) ==
    /\ Len(bus) % 3 = 0
    /\ \A i \in 1..Len(bus) :
         bus[i].ev = (IF i % 3 = 1 THEN "cs_low"
                      ELSE IF i % 3 = 2 THEN "write" ELSE "cs_high")

(* C13: chip-select is high after construction and whenever output or
   output_ab has returned, whether the transfer succeeded or failed; it is
   low exactly from just before each single write to just after it; and a
   call returns an error exactly when one of its writes failed. *)
ChipSelectFramesEachTransfer ==
    /\ (brake_dac.cs = "low")
          = (brake_dac.pc \in {"selected", "written", "failed"})
    /\ brake_dac.pc = "selected"
          => /\ brake_dac.bus[Len(brake_dac.bus)].ev = "cs_low"
             /\ FramedTransfers(SubSeq(brake_dac.bus, 1, Len(brake_dac.bus) - 1))
    /\ JustWritten
          => /\ brake_dac.bus[Len(brake_dac.bus) - 1].ev = "cs_low"
             /\ FramedTransfers(SubSeq(brake_dac.bus, 1, Len(brake_dac.bus) - 2))
    /\ brake_dac.pc \in {"output", "exit", "returned"}
          => FramedTransfers(brake_dac.bus)
    /\ brake_dac.pc = "returned"
          => /\ brake_dac.cs = "high"
             /\ Len(brake_dac.bus) >= 3
             /\ (brake_dac.result = "err")
                   = (\E i \in 1..Len(brake_dac.bus) : ~brake_dac.bus[i].ok)
             /\ brake_dac.result \in {"ok", "err"}

\* output returned the error of a failed write with the device unselected
ChipSelectFramesEachTransfer_Witness ==
    /\ brake_dac.fn = "output"
    /\ brake_dac.pc = "returned"
    /\ brake_dac.result = "err"
    /\ brake_dac.cs = "high"
    /\ Len(brake_dac.bus) = 3
    /\ ~brake_dac.bus[2].ok

\* the channel and the 12-bit value a word on the bus addresses
WordChannel(word) == IF Bit(word[1], 7) = 1 THEN "B" ELSE "A"

WordValue(word) == (word[1] % 16) * 256 + word[2]

\* the writes of a call as the brake module sees a pair write
Transfers(bus) ==
    [i \in 1..Len(Writes(bus)) |->
        [ch |-> WordChannel(Writes(bus)[i].word),
         val |-> WordValue(Writes(bus)[i].word),
         ok |-> Writes(bus)[i].ok]]

(* C19: output_ab(a, b) writes channel A strictly before channel B, each in
   its own chip-select frame; channel B is written only after channel A
   succeeded; a failed A write returns the error with B never attempted; a
   failed B write returns the error with the A write already completed, so
   the pair is not atomic at the peripheral. *)
PairIsTwoOrderedTransfers ==
    brake_dac.fn = "output_ab"
        => LET w == Transfers(brake_dac.bus)
           IN  /\ Len(w) <= 2
               /\ Len(w) >= 1
                     => w[1].ch = "A" /\ w[1].val = brake_dac.output_a
               /\ Len(w) = 2
                     => /\ w[1].ok
                        /\ w[2].ch = "B" /\ w[2].val = brake_dac.output_b
                        /\ brake_dac.bus[3].ev = "cs_high"
                        /\ brake_dac.bus[4].ev = "cs_low"
               /\ brake_dac.pc = "returned"
                     => /\ FramedTransfers(brake_dac.bus)
                        /\ \E spi \in SpiOutcomes :
                             /\ w = output_ab(brake_dac.output_a,
                                              brake_dac.output_b, spi)
                             /\ (brake_dac.result = "err") = (spi # "ok")

\* output_ab returned the error of channel B after channel A was written
PairIsTwoOrderedTransfers_Witness ==
    /\ brake_dac.fn = "output_ab"
    /\ brake_dac.pc = "returned"
    /\ brake_dac.result = "err"
    /\ Len(brake_dac.bus) = 6
    /\ brake_dac.bus[2].ok
    /\ ~brake_dac.bus[5].ok
    /\ brake_dac.output_a # brake_dac.output_b

====
